---- MODULE Spec2Model ----
(***************************************************************************)
(* Studentised maximum range: rng_lp, smrng_lp and smrng_lq.               *)
(*                                                                         *)
(* Every C double is a fixed-point integer counting 1/Unit, and every      *)
(* arithmetic operation rounds its result to that grid as the C operation  *)
(* rounds to the nearest double.  The <math.h> functions the sources call  *)
(* (exp, log, pow, sqrt, fabs) are the fixed-point operators Exp, Log,     *)
(* PowR/PowI, Sqrt and Abs below.  The integers k, df and nrng stay within *)
(* k <= 10 and df <= 20.                                                   *)
(***************************************************************************)
EXTENDS Integers, Sequences, FiniteSets, TLC

\* One unit of the fixed-point grid is 1/Unit.
Unit == 10 * 100

----------------------------------------------------------------------------
(* <math.h> on the fixed-point grid *)

Abs(a) == IF a < 0 THEN -a ELSE a

\* a/b rounded to the nearest integer (b # 0).
RDiv(a, b) ==
  IF b > 0 THEN (a + b \div 2) \div b
  ELSE ((-a) + (-b) \div 2) \div (-b)

\* The fixed-point product and quotient of two fixed-point numbers.
FMul(a, b) == a * (b \div Unit) + RDiv(a * (b % Unit), Unit)
FDiv(a, b) == RDiv(a * Unit, b)

\* A decimal literal written in thousandths, e.g. 10.465 is Lit(10465).
Lit(m) == RDiv(m * Unit, 1000)

RECURSIVE Newton(_, _)
Newton(n, x) ==
  IF (x + n \div x) \div 2 >= x THEN x ELSE Newton(n, (x + n \div x) \div 2)

\* floor of the integer square root
ISqrt(n) == IF n <= 0 THEN 0 ELSE Newton(n, n)

\* sqrt(a) of a fixed-point a >= 0
Sqrt(a) == ISqrt(a * Unit)

\* e^-n in units of 1e-5, n = 0..14
ExpNegTable ==
  << 100000, 36788, 13534, 4979, 1832, 674, 248, 91, 34, 12, 5, 2, 1, 0, 0 >>

\* e^n in thousandths, n = 0..5
ExpPosTable == << 1000, 2718, 7389, 20086, 54598, 148413 >>

RECURSIVE ExpHorner(_, _, _)
\* The Taylor polynomial of e^(f/Unit) in Horner form, from the term f/n
\* down; h, which is at least Unit, is tested so that it is evaluated step by
\* step
ExpHorner(f, n, h) ==
  IF n = 0 \/ h = 0 THEN h ELSE ExpHorner(f, n - 1, Unit + RDiv(FMul(f, h), n))

\* e^(f/Unit) for 0 <= f < Unit
ExpFrac(f) == ExpHorner(f, 6, Unit)

\* e^n times e, for an integer n
ExpScale(n, e) ==
  IF n < -14 THEN 0
  ELSE IF n <= 0 THEN RDiv(ExpNegTable[1 - n] * e, 100000)
  ELSE RDiv(Lit(ExpPosTable[n + 1]) * e, Unit)

\* exp(t): underflows to 0 below e^-14; arguments stay below 6
Exp(t) == ExpScale(t \div Unit, ExpFrac(t % Unit))

\* The value standing for log(0) = -infinity: exp of it is 0.
NegInf == -(2 ^ 20)

RECURSIVE AtanhSeries(_, _, _)
\* t/n + t w2/(n+2) + ... up to the term of degree 7
AtanhSeries(t, w2, n) ==
  IF n > 7 THEN 0 ELSE RDiv(t, n) + AtanhSeries(FMul(t, w2), w2, n + 2)

\* atanh(w) by its series
Atanh(w) == AtanhSeries(w, FMul(w, w), 1)

RECURSIVE LogNorm(_, _)
\* log of m * 2^e: m is brought into [Unit, 2 Unit), then
\* log(z) = 2 atanh((z-1)/(z+1))
LogNorm(m, e) ==
  IF m >= 2 * Unit THEN LogNorm(RDiv(m, 2), e + 1)
  ELSE IF m < Unit THEN LogNorm(2 * m, e - 1)
  ELSE RDiv(e * Lit(693147), 1000) + 2 * Atanh(FDiv(m - Unit, m + Unit))

Log(s) == IF s <= 0 THEN NegInf ELSE LogNorm(s, 0)

RECURSIVE PowAcc(_, _, _)
\* acc times a^n, one factor at a time; a product that is 0 stays 0
PowAcc(a, n, acc) ==
  IF n <= 0 \/ acc = 0 THEN acc ELSE PowAcc(a, n - 1, FMul(a, acc))

\* pow(a, n) for an integer exponent n >= 0
PowI(a, n) == PowAcc(a, n, Unit)

\* pow(a, b) for a real exponent b and a > 0
PowR(a, b) == IF a <= 0 THEN 0 ELSE Exp(FMul(b, Log(a)))

\* The literal m/scale times the fixed-point a, rounded once: a literal with
\* more digits than the grid keeps them in the product.
KMul(m, scale, a) == RDiv(m * a, scale)

\* The literal m/scale on the grid.
Dec(m, scale) == (m \div scale) * Unit + RDiv((m % scale) * Unit, scale)

\* (double)k of an int k
Dbl(k) == k * Unit

----------------------------------------------------------------------------
(* nrml_p.c is not among the sources; nrml_p follows the specification's   *)
(* NormalCDF: mode 0 the lower probability P(Z <= u), mode 1 the upper     *)
(* probability P(Z > u), mode 2 the central probability, which rng_lp uses *)
(* as P(0 < Z <= u) (2*nrml_p(u,2) is the probability of |Z| <= u).        *)

\* P(0 < Z <= u) in units of 1e-5 at u = 0.0, 0.1, ..., 4.6
CentralTable ==
  << 0, 3983, 7926, 11791, 15542, 19146, 22575, 25804, 28814, 31594,
     34134, 36433, 38493, 40320, 41924, 43319, 44520, 45543, 46407, 47128,
     47725, 48214, 48610, 48928, 49180, 49379, 49534, 49653, 49744, 49813,
     49865, 49903, 49931, 49952, 49966, 49977, 49984, 49989, 49993, 49995,
     49997, 49998, 49999, 49999, 49999, 50000, 50000 >>

\* The table interpolated at t thousandths, t >= 0
CentralAt(t) ==
  IF t \div 100 >= 45 THEN 50000
  ELSE CentralTable[t \div 100 + 1]
         + RDiv((CentralTable[t \div 100 + 2] - CentralTable[t \div 100 + 1])
                  * (t % 100), 100)

\* P(0 < Z <= u) in units of 1e-5 for u >= 0
Central5(u) == CentralAt(RDiv(u * 1000, Unit))

\* The probability of the mode from the signed central probability c
nrml_mode(c, upper) ==
  IF upper = 0 THEN RDiv((50000 + c) * Unit, 100000)
  ELSE IF upper = 1 THEN RDiv((50000 - c) * Unit, 100000)
  ELSE RDiv(c * Unit, 100000)

nrml_p(u, upper) ==
  nrml_mode((IF u >= 0 THEN 1 ELSE -1) * Central5(Abs(u)), upper)

----------------------------------------------------------------------------
(* rng_lp.c *)

\* #define BORDER 3.7
BORDER == Dec(37, 10)

\* #define CNST0 0.3989...: 1/sqrt(2*pi)
CNST0 == Dec(398942, 1000000)

\* #define MAX(X, Y), #define MIN(X, Y)
Max(a, b) == IF a < b THEN b ELSE a
Min(a, b) == IF a < b THEN a ELSE b

\* Normal probability in interval (a, b).
nrml_ip(a, b) ==
  IF a >= b THEN 0
  ELSE IF a > BORDER THEN nrml_p(a, 1) - nrml_p(b, 1)
  ELSE IF b < -BORDER THEN nrml_p(b, 0) - nrml_p(a, 0)
  ELSE nrml_p(b, 2) - nrml_p(a, 2)

\* ulim: rmin(k), w being log(k)
ulim_rmin(w) ==
  Exp(Dec(23641, 10000) - FDiv(Dec(4669, 1000), w)
        - FDiv(Dec(9499, 1000), FMul(w, w))
        - FDiv(Dec(13293, 1000), FMul(FMul(w, w), w)))

\* ulim: z for k <= 10
ulim_z10(r, k) ==
  Min(Unit,
      Max(0, FMul(KMul(2173, 100000, Log(FDiv(Dec(87, 10), Dbl(k) - Dec(13, 10)))),
                  Dec(84, 10) + KMul(2, 10, Dbl(k)) - r))
        + Dec(199, 1000) + KMul(134, 1000, r) - KMul(5, 1000, FMul(r, r)))

\* ulim: a1, a2 and a3 for k > 10
ulim_a1(k) ==
  IF k < 30 THEN KMul(8889, 1000, Log(Dbl(k) - Dec(30, 10))) + Dec(2470, 100)
  ELSE Dec(540, 10)

ulim_a2(k) ==
  IF k < 30 THEN KMul(6873, 100000, Log(Dbl(k) - Dec(70, 10))) + Dec(9245, 10000)
  ELSE Dec(114, 100)

ulim_a3(k) ==
  IF k < 22 THEN KMul(-6031, 10000, Log(Dbl(k) + Dec(60, 10))) + Dec(16877, 10000)
  ELSE IF k <= 35 THEN Dec(-31, 100)
  ELSE KMul(308, 1000, Log(Dbl(k) - Dec(50, 10))) - Dec(13576, 10000)

\* ulim: z = (w > 9.0) ? 1.0 : 0.199 + 0.134*w - 0.00500*w*w
ulim_zw(w) ==
  IF w > Dec(90, 10) THEN Unit
  ELSE Dec(199, 1000) + KMul(134, 1000, w) - KMul(5, 1000, FMul(w, w))

\* ulim: z, depending on whether k <= 10 or k > 10
ulim_z(r, k, rmin) ==
  IF k <= 10 THEN ulim_z10(r, k)
  ELSE ulim_zw(FMul(ulim_a1(k),
                    PowR(FDiv(r - rmin + Dec(7856, 100000),
                              Dec(420, 10) - rmin + Dec(7856, 100000)),
                         ulim_a2(k)))
                 + ulim_a3(k))

\* ulim after k = min(k, 1000), w = log(k) and rmin
ulim_r(r, k, w, rmin) ==
  IF r <= rmin THEN 0
  ELSE FMul(KMul(1403, 1000, Sqrt(w + Dec(28127, 1000))), ulim_z(r, k, rmin))

ulim_w(r, k, w) == ulim_r(r, k, w, ulim_rmin(w))

\* Upper integral limit for Hartley's formula.
ulim(r, k) == ulim_w(r, Min(k, 1000), Log(Dbl(Min(k, 1000))))

\* static double f(double x, double r, int k) of rng_lp.c
rng_f(x, r, k) ==
  FMul(Exp(-RDiv(FMul(x, x), 2)), PowI(nrml_ip(x - r, x), k - 1))

\* The 10 nodes and weights of rng_lp, in units of 1e-5
rng_nd == << 99313, 96397, 91223, 83912, 74633, 63605, 51087, 37371, 22779, 7653 >>
rng_wt == << 1761, 4060, 6267, 8328, 10193, 11819, 13169, 14210, 14917, 15275 >>

\* The j-th of the 20 abscissae, relative to cntr: -x and +x for each node
rng_x(j, wdth) ==
  (IF j % 2 = 1 THEN -1 ELSE 1) * RDiv(wdth * rng_nd[(j + 1) \div 2], 100000)

RECURSIVE rng_sum(_, _, _, _, _, _)
\* p after the loop over ix, in units of 1e-5/Unit: the sum of the terms of
\* the abscissae i..j, by halves
rng_sum(i, j, cntr, wdth, r, k) ==
  IF i = j THEN rng_wt[(j + 1) \div 2] * rng_f(cntr + rng_x(j, wdth), r, k)
  ELSE rng_sum(i, (i + j) \div 2, cntr, wdth, r, k)
         + rng_sum((i + j) \div 2 + 1, j, cntr, wdth, r, k)

\* 2nd term of Hartley's formula
rng_term2(r, k, wdth, cntr) ==
  FMul(RDiv(rng_sum(1, 2 * Len(rng_nd), cntr, wdth, r, k), 100000), FMul(2 * k * wdth, CNST0))

\* Hartley's formula for the upper limit xu and hr = 0.5*r
rng_hartley(r, k, xu, hr) ==
  (IF xu > hr THEN rng_term2(r, k, RDiv(xu - hr, 2), RDiv(xu + hr, 2)) ELSE 0)
    + PowI(2 * nrml_p(hr, 2), k)

rng_lp(r, k) ==
  IF r <= 0 THEN 0
  ELSE IF k = 2 THEN 2 * nrml_p(FDiv(r, Sqrt(2 * Unit)), 2)
  ELSE rng_hartley(r, k, ulim(r, k), RDiv(r, 2))

----------------------------------------------------------------------------
(* smrng_lp.c *)

\* #define LOGSQRTPI 0.5723...: log(sqrt(pi))
LOGSQRTPI == Dec(572365, 1000000)

\* rupper: rn1 and rn100
rupper_rn1(k) ==
  KMul(42, 100, PowR(Log(Dbl(k) - Dec(5, 10)), Dec(9, 10))) + Dec(10465, 1000)

rupper_rn100(k) ==
  KMul(2866, 10000, PowR(Log(Dbl(k) - Dec(9, 10)), Dec(105, 100)))
    + Dec(11451, 1000)

\* rupper: y = 0.2273*(rn100 - rn1)*pow(log((double)nrng), 0.97) + rn1
rupper_y(rn1, rn100, nrng) ==
  KMul(2273, 10000, FMul(rn100 - rn1, PowR(Log(Dbl(nrng)), Dec(97, 100)))) + rn1

\* Upper limit of max range with approx upper prob=0.5e-13.
rupper(k, nrng) ==
  IF nrng <= 1 THEN rupper_rn1(k)
  ELSE rupper_y(rupper_rn1(k), rupper_rn100(k), nrng)

\* rlower: (z100 - z1)/(x100 - x1)*(x - x1) + z1
rlower_z(z1, z100, x1, x100, x) ==
  FMul(FDiv(z100 - z1, x100 - x1), x - x1) + z1

\* rlower, k <= 40: dk, bk and 1.0/pow(log(n + dk), bk)
rlower_dk(k) ==
  IF k < 8 THEN FDiv(Dec(2934, 1000), Dbl(k) + Unit) + Dec(522, 1000)
  ELSE Dec(86, 100) - KMul(15, 10000, Dbl(k))

rlower_bk(k) ==
  IF k < 8 THEN FDiv(Dec(788, 100), Dbl(k) + 2 * Unit) + Dec(112, 1000)
  ELSE FDiv(Dec(16875, 1000), Dbl(k) + 10 * Unit) - Dec(375, 10000)

rlower_x(n, dk, bk) == FDiv(Unit, PowR(Log(n + dk), bk))

\* rlower, k <= 40, after z1, dk and bk
rlower_le40(k, nrng, z1, dk, bk) ==
  IF nrng <= 1 THEN Exp(z1)
  ELSE Exp(rlower_z(z1,
                    -FDiv(Dec(5749, 1000), PowR(Log(Dbl(k)), Dec(12, 100)))
                      + Dec(64651, 10000),
                    rlower_x(Unit, dk, bk), rlower_x(100 * Unit, dk, bk),
                    rlower_x(Dbl(nrng), dk, bk)))

\* rlower, k > 40: bk
rlower_bk40(k) ==
  IF k <= 55 THEN KMul(-8478, 100000, Log(Dbl(k))) + Dec(5738, 10000)
  ELSE KMul(3220, 100000, Log(Dbl(k))) + Dec(1050, 10000)

\* rlower, k > 40, after z1 and bk
rlower_gt40(k, nrng, z1, bk) ==
  IF nrng <= 1 THEN z1
  ELSE rlower_z(z1,
                KMul(3149, 1000, PowR(Log(Dbl(k) + Unit), Dec(48, 100)))
                  - Dec(12017, 10000),
                PowR(Log(2 * Unit), bk), PowR(Log(101 * Unit), bk),
                PowR(Log(Dbl(nrng) + Unit), bk))

\* Lower limit of max range with approx lower prob=0.5e-13.
rlower(k, nrng) ==
  IF k <= 40
  THEN rlower_le40(k, nrng,
                   -FDiv(Dec(2712, 100), PowR(Log(Dbl(k) + Dec(5, 10)), Dec(21, 10)))
                     + Dec(18800, 10000),
                   rlower_dk(k), rlower_bk(k))
  ELSE rlower_gt40(k, nrng,
                   KMul(4494, 10, PowR(Log(Dbl(k) + 10 * Unit), Dec(12, 1000)))
                     - Dec(4556678, 10000),
                   rlower_bk40(k))

\* ddf = 2.0/9.0/df
chi2_ddf(df) == RDiv(RDiv(2 * Unit, 9), df)

\* Wilson-Hilferty approximation: df*pow(w*sqrt(ddf) + (1.0 - ddf), 3.0)
chi2_wh(df, w, ddf) == df * PowI(FMul(w, Sqrt(ddf)) + (Unit - ddf), 3)

\* double first[5] of chi2u
chi2u_first ==
  << Dec(5673, 100), Dec(6126, 100), Dec(6501, 100), Dec(6838, 100), Dec(7150, 100) >>

chi2u_w(df) ==
  IF df <= 20
  THEN Dec(7391, 1000) - RDiv(Dec(3050, 1000), df) + RDiv(Dec(5208, 1000), df * df)
  ELSE Dec(7441, 1000) - RDiv(Dec(5209, 1000), df) + RDiv(Dec(2927, 100), df * df)

\* Upper limit for chi^2(df) with approx upper prob=0.5e-13 (df >= 1).
chi2u(df) ==
  IF df <= 5 THEN chi2u_first[df] ELSE chi2_wh(df, chi2u_w(df), chi2_ddf(df))

\* double first[5] of chi2l: 3.926e-27, 1.0e-13, 3.281e-09, 6.324e-07,
\* 1.546e-05, each rounded to the grid
chi2l_first ==
  << Dec(0, 1), Dec(0, 1), Dec(3, 1000000000), Dec(6, 10000000), Dec(15, 1000000) >>

\* chi2l, 5 < df <= 20: the log approximation
chi2l_log(df) ==
  df * Exp(FDiv(Dec(-8645, 1000) - RDiv(Dec(7072, 100), df)
                  + RDiv(Dec(7747, 100), df * df),
                Sqrt(RDiv(Dbl(df), 2)))
             - RDiv(Unit, df))

\* Lower limit for chi^2(df) with approx lower prob=0.5e-13 (df >= 1).
chi2l(df) ==
  IF df <= 5 THEN chi2l_first[df]
  ELSE IF df <= 20 THEN chi2l_log(df)
  ELSE chi2_wh(df, Dec(-7451, 1000) + RDiv(Dec(1007, 100), df)
                     + RDiv(Dec(8283, 100), df * df),
               chi2_ddf(df))

RECURSIVE coef_g(_, _)
\* g after the loop for(n; n > 0; n -= 2) g += log(0.5*n)
coef_g(n, g) == IF n > 0 THEN coef_g(n - 2, g + Log(RDiv(Dbl(n), 2))) ELSE g

\* Coefficient of chi distribution (Note: not chi^2 distribution).
coef(df) ==
  2 * Exp(RDiv(df * (Log(RDiv(Dbl(df), 2)) - Unit), 2)
            - coef_g(df - 2, IF df % 2 = 1 THEN LOGSQRTPI ELSE 0))

\* The test if(isw == 0) of the integrand seen from the other side: is the
\* power of rng_lp a factor of it
lp_full_swapped(isw) == isw = 0

\* if(isw == 0) return (y); else return (y*pow(rng_lp(s*q, k), nrng)): the
\* integrand is the full one, the power of rng_lp being a factor, unless
\* isw is 0
lp_full(isw) == ~(isw = 0)

\* The integrand after y
lp_fy(y, s, k, nrng, q, isw) ==
  IF lp_full(isw) THEN FMul(y, PowI(rng_lp(FMul(s, q), k), nrng)) ELSE y

\* Integrand function: static double f(s, k, df, nrng, q, isw) of smrng_lp.c
lp_f(s, k, df, nrng, q, isw) ==
  lp_fy(Exp((df - 1) * Log(s) + RDiv(df * (Unit - FMul(s, s)), 2)),
        s, k, nrng, q, isw)

\* The 20 nodes and weights of smrng_lp, in units of 1e-5
lp_nd ==
  << 99824, 99073, 97726, 95792, 93281, 90210, 86596, 82461, 77831, 72732,
     67196, 61255, 54947, 48308, 41378, 34199, 26815, 19270, 11608, 3877 >>
lp_wt ==
  << 452, 1050, 1642, 2225, 2794, 3346, 3878, 4387, 4870, 5323,
     5744, 6131, 6480, 6791, 7061, 7289, 7472, 7611, 7704, 7751 >>

\* The j-th of the 40 abscissae, relative to cntr: -x and +x for each node
lp_x(j, wdth) ==
  (IF j % 2 = 1 THEN -1 ELSE 1) * RDiv(wdth * lp_nd[(j + 1) \div 2], 100000)

RECURSIVE lp_sum(_, _, _, _, _, _, _, _, _)
\* p1 after the loop over i, in units of 1e-5/Unit: the sum of the terms of
\* the abscissae i..j, by halves
lp_sum(i, j, cntr, wdth, k, df, nrng, q, isw) ==
  IF i = j
  THEN lp_wt[(j + 1) \div 2] * lp_f(cntr + lp_x(j, wdth), k, df, nrng, q, isw)
  ELSE lp_sum(i, (i + j) \div 2, cntr, wdth, k, df, nrng, q, isw)
         + lp_sum((i + j) \div 2 + 1, j, cntr, wdth, k, df, nrng, q, isw)

\* wdth*p1 of one pass of the loop over isw
lp_pass(cntr, wdth, k, df, nrng, q, isw) ==
  FMul(wdth, RDiv(lp_sum(1, 2 * Len(lp_nd), cntr, wdth, k, df, nrng, q, isw), 100000))

RECURSIVE lp_loop(_, _, _, _, _, _, _, _, _, _, _)
\* for( ; isw < 2; isw++): the state is (isw, sl, su, p); segs lists the
\* intervals integrated so far, each with whether its integrand was the full
\* one.
lp_loop(isw, sl, su, sll, ruq, p, segs, k, df, nrng, q) ==
  IF isw < 2
  THEN lp_loop(isw + 1, IF isw = 0 THEN sll ELSE sl, IF isw = 0 THEN ruq ELSE su,
               sll, ruq,
               p + lp_pass(RDiv(sl + su, 2), RDiv(su - sl, 2), k, df, nrng, q, isw),
               Append(segs, [lo |-> sl, hi |-> su, full |-> lp_full(isw)]),
               k, df, nrng, q)
  ELSE [p |-> p, segs |-> segs]

\* return (cnst*p)
lp_return(cnst, r) == [ret |-> FMul(cnst, r.p), segs |-> r.segs]

\* smrng_lp from the test of ruq on, sl being the larger of sl and rlq
lp_upper(q, k, df, nrng, sl, su, ruq) ==
  IF ruq <= sl THEN [ret |-> Unit, segs |-> << >>]
  ELSE lp_return(coef(df),
                 IF ruq < su
                 THEN lp_loop(0, ruq, su, sl, ruq, 0, << >>, k, df, nrng, q)
                 ELSE lp_loop(1, sl, su, 0, ruq, 0, << >>, k, df, nrng, q))

\* lp_lower without if(rlq >= su) return(0.0)
lp_lower_nocut(q, k, df, nrng, sl, su, rlq) ==
  lp_upper(q, k, df, nrng, Max(sl, rlq), su, FDiv(rupper(k, nrng), q))

\* smrng_lp from the test of rlq on
lp_lower(q, k, df, nrng, sl, su, rlq) ==
  IF rlq >= su THEN [ret |-> 0, segs |-> << >>]
  ELSE lp_upper(q, k, df, nrng, Max(sl, rlq), su, FDiv(rupper(k, nrng), q))

\* smrng_lp returning rng_lp(q, k) itself for df <= 0
smrng_lp_run_nopow(q, k, df, nrng) ==
  IF q <= 0 THEN [ret |-> 0, segs |-> << >>]
  ELSE IF df <= 0 THEN [ret |-> rng_lp(q, k), segs |-> << >>]
  ELSE lp_lower(q, k, df, nrng, Sqrt(RDiv(chi2l(df), df)),
                Sqrt(RDiv(chi2u(df), df)), FDiv(rlower(k, nrng), q))

\* One call of smrng_lp: ret is the value returned, segs the intervals it
\* integrated.
smrng_lp_run(q, k, df, nrng) ==
  IF q <= 0 THEN [ret |-> 0, segs |-> << >>]
  ELSE IF df <= 0 THEN [ret |-> PowI(rng_lp(q, k), nrng), segs |-> << >>]
  ELSE lp_lower(q, k, df, nrng, Sqrt(RDiv(chi2l(df), df)),
                Sqrt(RDiv(chi2u(df), df)), FDiv(rlower(k, nrng), q))

smrng_lp(q, k, df, nrng) == smrng_lp_run(q, k, df, nrng).ret

----------------------------------------------------------------------------
(* smrng_lq.c *)

\* #define YEPS 1.0e-12, the accuracy of the probabilities: some thousands of
\* units in the last place of a double near 1.  On the grid it is the
\* smallest floor that is above one unit in the last place.
YEPS == 2

\* for(i=1; i < 201; i++)
ITEND == 201

\* return (1.0e+99): a value beyond every finite abscissa of the grid; it
\* also stands for +infinity, the quotient of a positive number by 0.
Sentinel == 2 ^ 30

\* lq_early with if(p < 0.0)
lq_early_strict(p) ==
  IF p < 0 THEN [returns |-> TRUE, value |-> 0]
  ELSE IF p >= Unit THEN [returns |-> TRUE, value |-> Sentinel]
  ELSE [returns |-> FALSE, value |-> 0]

\* Lines 60-64: what the call returns before any evaluation, if it does.
lq_early(p) ==
  IF p <= 0 THEN [returns |-> TRUE, value |-> 0]
  ELSE IF p >= Unit THEN [returns |-> TRUE, value |-> Sentinel]
  ELSE [returns |-> FALSE, value |-> 0]

\* Lines 68-70: the first bracket, before y2 is evaluated
lq_first == [x1 |-> 0, y1 |-> 0, x2 |-> Dbl(2)]

\* Line 73: while(y2 < p)
lq_while(y2, p) == y2 < p

\* Lines 74-76: the bracket after a doubling, before y2 is evaluated
lq_double(x1, y1, x2, y2) == [x1 |-> x2, y1 |-> y2, x2 |-> 2 * x2]

\* lq_seed with x3 = x1; y3 = y1
lq_seed_low(x1, y1, x2, y2) == [x3 |-> x1, y3 |-> y1]

\* Lines 80-81: the point (x3, y3) the refinement starts with.
lq_seed(x1, y1, x2, y2) == [x3 |-> x2, y3 |-> y2]

\* lq_bisects with i%2 == 0
lq_bisects_even(i, y1, y2) == i % 2 = 0 \/ Abs(y2 - y1) < YEPS

\* Line 85: bisection for odd i, or small fabs(y2-y1)
lq_bisects(i, y1, y2) == i % 2 = 1 \/ Abs(y2 - y1) < YEPS

\* Lines 90-93: the coefficient a of the quadratic
lq_a(x1, y1, x2, y2, x3, y3, xeps) ==
  IF Abs(x1 - x3) < xeps \/ Abs(x2 - x3) < xeps THEN 0
  ELSE FDiv(FDiv(y3 - y1, x3 - x1) - FDiv(y2 - y1, x2 - x1), x3 - x2)

\* Line 94: b = (y2 - y1)/(x2 - x1) - a*(x2 - x1)
lq_b(a, x1, y1, x2, y2) == FDiv(y2 - y1, x2 - x1) - FMul(a, x2 - x1)

\* Line 95-98: the root for a and b, sq being sqrt(b*b + 4.0*a*(p - y1));
\* a quotient by 0 is +infinity
lq_x(a, b, sq, x1, y1, p) ==
  IF a > 0 THEN x1 + FDiv(-b + sq, 2 * a)
  ELSE IF b + sq = 0 THEN Sentinel
  ELSE x1 + FDiv(2 * (p - y1), b + sq)

\* b*b + 4.0*a*(p - y1) in units of 1/Unit^2: a double holds the products of
\* two numbers of the grid exactly
lq_disc(a, b, y1, p) == b * b + 4 * a * (p - y1)

\* Lines 94-98: the root of the quadratic for the coefficient a; the square
\* root of lq_disc in units of 1/Unit is the integer square root
lq_ab(a, b, x1, y1, p) == lq_x(a, b, ISqrt(lq_disc(a, b, y1, p)), x1, y1, p)

lq_root(a, x1, y1, x2, y2, p) == lq_ab(a, lq_b(a, x1, y1, x2, y2), x1, y1, p)

\* lq_inside with if(x < x1)
lq_inside_low(xq, x1, x2) == IF xq < x1 THEN RDiv(x1 + x2, 2) ELSE xq

\* Lines 99-100: outside the bracket the point is replaced by the midpoint
lq_inside(xq, x1, x2) == IF xq < x1 \/ xq > x2 THEN RDiv(x1 + x2, 2) ELSE xq

\* Lines 85-101: the trial point of iteration i
lq_trial(i, x1, y1, x2, y2, x3, y3, p, xeps) ==
  IF lq_bisects(i, y1, y2) THEN RDiv(x1 + x2, 2)
  ELSE lq_inside(lq_root(lq_a(x1, y1, x2, y2, x3, y3, xeps), x1, y1, x2, y2, p),
                 x1, x2)

\* lq_break with || for &&
lq_break_either(x1, x2, y, p, xeps, peps) ==
  Abs(x2 - x1) < xeps \/ Abs(y - p) < peps

\* Line 105: both tolerances are met
lq_break(x1, x2, y, p, xeps, peps) ==
  Abs(x2 - x1) < xeps /\ Abs(y - p) < peps

\* lq_update with if(y > p)
lq_update_strict(x1, y1, x2, y2, x, y, p) ==
  IF y > p
  THEN [x1 |-> x1, y1 |-> y1, x2 |-> x, y2 |-> y, x3 |-> x2, y3 |-> y2]
  ELSE [x1 |-> x, y1 |-> y, x2 |-> x2, y2 |-> y2, x3 |-> x1, y3 |-> y1]

\* lq_update with x3 = x2; y3 = y2 in the else branch too
lq_update_keep3(x1, y1, x2, y2, x, y, p) ==
  IF y >= p
  THEN [x1 |-> x1, y1 |-> y1, x2 |-> x, y2 |-> y, x3 |-> x2, y3 |-> y2]
  ELSE [x1 |-> x, y1 |-> y, x2 |-> x2, y2 |-> y2, x3 |-> x2, y3 |-> y2]

\* Lines 108-119: the bracket and the third point after the trial (x, y)
lq_update(x1, y1, x2, y2, x, y, p) ==
  IF y >= p
  THEN [x1 |-> x1, y1 |-> y1, x2 |-> x, y2 |-> y, x3 |-> x2, y3 |-> y2]
  ELSE [x1 |-> x, y1 |-> y, x2 |-> x2, y2 |-> y2, x3 |-> x1, y3 |-> y1]

\* *itr++ for (*itr)++: the int is left as it is
itr_ptr_incr(v) == v

\* (*itr)++ of lines 72, 78 and 104: the value written for the value v read
itr_incr(v) == v + 1

RECURSIVE lq_for(_, _, _, _, _, _, _, _, _)
\* Lines 83-121 from iteration i on, b being the bracket and the third point,
\* itr the value of *itr: the value returned and the final *itr
lq_for(i, b, itr, p, k, df, nrng, xeps, peps) ==
  LET x == lq_trial(i, b.x1, b.y1, b.x2, b.y2, b.x3, b.y3, p, xeps)
      y == smrng_lp(x, k, df, nrng)
  IN  IF lq_break(b.x1, b.x2, y, p, xeps, peps) \/ ~(i + 1 < ITEND)
      THEN [x |-> x, itr |-> itr_incr(itr)]
      ELSE lq_for(i + 1, lq_update(b.x1, b.y1, b.x2, b.y2, x, y, p), itr_incr(itr),
                  p, k, df, nrng, xeps, peps)

RECURSIVE lq_bracket(_, _, _, _, _, _, _, _, _, _, _)
\* Lines 73-121, (x1, y1) and (x2, y2) being the bracket so far
lq_bracket(x1, y1, x2, y2, itr, p, k, df, nrng, xeps, peps) ==
  IF lq_while(y2, p)
  THEN lq_bracket(x2, y2, 2 * x2, smrng_lp(2 * x2, k, df, nrng), itr_incr(itr),
                  p, k, df, nrng, xeps, peps)
  ELSE lq_for(1, [x1 |-> x1, y1 |-> y1, x2 |-> x2, y2 |-> y2,
                  x3 |-> lq_seed(x1, y1, x2, y2).x3,
                  y3 |-> lq_seed(x1, y1, x2, y2).y3],
              itr, p, k, df, nrng, xeps, peps)

\* One call of smrng_lq run alone: the value returned and the final *itr
smrng_lq(p, k, df, nrng, xeps, peps) ==
  IF lq_early(p).returns THEN [x |-> lq_early(p).value, itr |-> 0]
  ELSE lq_bracket(lq_first.x1, lq_first.y1, lq_first.x2,
                  smrng_lp(lq_first.x2, k, df, nrng), itr_incr(0),
                  p, k, df, nrng, xeps, peps)

----------------------------------------------------------------------------
(* The callers: each thread makes one call of smrng_lq, smrng_lp or rng_lp. *)

Threads == {1, 2}

\* The ints that the itr arguments of the smrng_lq calls point to.
Cells == {1, 2}

\* What a caller's int holds before the call.
ItrBefore == {5}

\* The bracketing loop is followed for at most this many doublings of x2.
MaxDoublings == 5

VARIABLES
  pc,     \* pc[t]: where thread t is in its call
  arg,    \* arg[t]: the arguments of the call of thread t
  loc,    \* loc[t]: the automatic variables of smrng_lq in thread t
  mem,    \* mem[c]: the int *itr points to
  ret,    \* ret[t]: the value the call of thread t returned
  lpres,  \* lpres[t]: the last call of smrng_lp in thread t
  obs     \* obs[t]: what has been observed of the smrng_lq call of thread t

vars == << pc, arg, loc, mem, ret, lpres, obs >>

NoArg == [op |-> "off", p |-> 0, q |-> 0, k |-> 2, df |-> 0, nrng |-> 1,
          xeps |-> 1, peps |-> 1, itr |-> 1]

\* x1 .. y are the variables of smrng_lq; rv is the value a call of smrng_lp
\* returned, tmp the value read from *itr by (*itr)++, and phase tells the
\* bracketing phase (lines 68-79) from the refinement loop (lines 83-120).
NoLoc == [x1 |-> 0, y1 |-> 0, x2 |-> 0, y2 |-> 0, x3 |-> 0, y3 |-> 0,
          x |-> 0, y |-> 0, i |-> 0, rv |-> 0, tmp |-> 0, phase |-> "bracket"]

\* A call of smrng_lp: made tells a call from none, q is its argument, ret
\* the value returned and segs the intervals it integrated.
NoLp == [made |-> FALSE, q |-> 0, ret |-> 0, segs |-> << >>]

LqArg(p, k, df, nrng, xeps, peps, c) ==
  [op |-> "lq", p |-> p, q |-> 0, k |-> k, df |-> df, nrng |-> nrng,
   xeps |-> xeps, peps |-> peps, itr |-> c]

LpArg(q, k, df, nrng) ==
  [op |-> "lp", p |-> 0, q |-> q, k |-> k, df |-> df, nrng |-> nrng,
   xeps |-> 1, peps |-> 1, itr |-> 1]

RngArg(r, k) ==
  [op |-> "rng", p |-> 0, q |-> r, k |-> k, df |-> 0, nrng |-> 1,
   xeps |-> 1, peps |-> 1, itr |-> 1]

\* p <= 0 and p >= 1
EdgeP == {-(Unit \div 2), 0, Unit, 2 * Unit}

LqInputs ==
  {LqArg(p, k, df, 1, 1, 1, 1) : p \in EdgeP, k \in {2, 3}, df \in {0, 5}}
  \cup {LqArg(p, k, 0, n, xe, pe, 1) :
          p \in {Dec(5, 10), Dec(9, 10), Dec(95, 100)}, k \in {2, 3}, n \in {1, 2},
          xe \in {2, 8}, pe \in {2, 20}}
  \cup {LqArg(Dec(95, 100), 2, 0, 1, 1, 0, 1)}
  \cup {LqArg(p, 2, df, 1, xe, pe, 1) :
          p \in {Dec(5, 10), Dec(95, 100)}, df \in {1, 5, 20},
          xe \in {2, 8}, pe \in {2, 20}}

LpInputs ==
  {LpArg(q, k, df, n) :
     q \in {-Unit, 0, Dec(1, 100), Unit, 3 * Unit, 80 * Unit}, k \in {2, 10},
     df \in {-1, 0, 5, 20}, n \in {1, 2}}

RngInputs == {RngArg(r, k) : r \in {-Unit, 0, Unit, 3 * Unit}, k \in {2, 3}}

SeqInputs == LqInputs \cup LpInputs \cup RngInputs

\* The calls that are run two at a time
ConcInputs ==
  {LqArg(Dec(5, 10), 2, 0, 1, 4 * Unit, Dec(5, 10), c) : c \in Cells}
  \cup {LqArg(Dec(9, 10), 2, 0, 1, 4 * Unit, Dec(2, 100), c) : c \in Cells}
  \cup {LqArg(0, 2, 0, 1, 8, 20, 1), LpArg(Unit, 2, 0, 1), RngArg(Unit, 2)}

\* The bracket and the third point of the automatic variables l
Bracket(l) ==
  [x1 |-> l.x1, y1 |-> l.y1, x2 |-> l.x2, y2 |-> l.y2, x3 |-> l.x3, y3 |-> l.y3]

\* Observed of a call of smrng_lq: the number of calls of smrng_lp it made
\* (calls), of doublings of x2 (dbl) and of refinement iterations (nref), the
\* point (x2, y2) held before the last doubling (pre), the bracket the last
\* call of smrng_lp found (last), and whether an earlier trial met both
\* tolerances without ending the call (passed).
NoObs == [calls |-> 0, dbl |-> 0, nref |-> 0, passed |-> FALSE,
          pre |-> [x |-> 0, y |-> 0], last |-> Bracket(NoLoc)]

\* Both tolerances at the trial (x, y) of the automatic variables l: the
\* bracket is narrower than xeps and the value is within peps of p.
Tolerances(l, a) == Abs(l.x2 - l.x1) < a.xeps /\ Abs(l.y - a.p) < a.peps

\* obs after a call of smrng_lp made from the automatic variables l
Called(o, l) ==
  [o EXCEPT !.calls = @ + 1,
            !.nref = IF l.phase = "refine" THEN @ + 1 ELSE @,
            !.last = Bracket(l)]

InitOf(args) ==
  /\ arg \in args
  /\ pc = [t \in Threads |-> IF arg[t].op = "off" THEN "off" ELSE "idle"]
  /\ loc = [t \in Threads |-> NoLoc]
  /\ mem \in [Cells -> ItrBefore]
  /\ ret = [t \in Threads |-> 0]
  /\ lpres = [t \in Threads |-> NoLp]
  /\ obs = [t \in Threads |-> NoObs]

\* One caller; thread 2 makes no call.
Init == InitOf({[t \in Threads |-> IF t = 1 THEN a ELSE NoArg] : a \in SeqInputs})

\* Two callers at once.
ConcInit ==
  InitOf({[t \in Threads |-> IF t = 1 THEN a ELSE b] :
            a \in ConcInputs, b \in ConcInputs})

\* *itr as one static int of smrng_lq
ItrCell_static(a) == 1

\* The int that the argument itr of the call points to
ItrCell(a) == a.itr

\* smrng_lq, lines 60-70, up to the call of smrng_lp of line 71
LqEnter(t) ==
  /\ pc[t] = "idle" /\ arg[t].op = "lq"
  /\ mem' = [mem EXCEPT ![ItrCell(arg[t])] = 0]
  /\ IF lq_early(arg[t].p).returns
     THEN /\ ret' = [ret EXCEPT ![t] = lq_early(arg[t].p).value]
          /\ pc' = [pc EXCEPT ![t] = "done"]
          /\ loc' = loc
     ELSE /\ loc' = [loc EXCEPT ![t] = [@ EXCEPT !.x1 = lq_first.x1,
                                                  !.y1 = lq_first.y1,
                                                  !.x2 = lq_first.x2,
                                                  !.phase = "bracket"]]
          /\ pc' = [pc EXCEPT ![t] = "call"]
          /\ ret' = ret
  /\ UNCHANGED << arg, lpres, obs >>

\* The argument q of the call of smrng_lp thread t is about to make: the
\* caller's q, or x2 (lines 71, 77) or x (line 103) of smrng_lq
LpPoint(t) ==
  IF pc[t] = "idle" THEN arg[t].q
  ELSE IF loc[t].phase = "bracket" THEN loc[t].x2 ELSE loc[t].x

\* The return of a call of smrng_lp at q that did r: to the caller, or to
\* smrng_lq
LpReturn(t, q, r) ==
  /\ lpres' = [lpres EXCEPT ![t] = [made |-> TRUE, q |-> q, ret |-> r.ret,
                                    segs |-> r.segs]]
  /\ IF pc[t] = "idle"
     THEN /\ ret' = [ret EXCEPT ![t] = r.ret]
          /\ pc' = [pc EXCEPT ![t] = "done"]
          /\ UNCHANGED << loc, obs >>
     ELSE /\ loc' = [loc EXCEPT ![t].rv = r.ret]
          /\ obs' = [obs EXCEPT ![t] = Called(@, loc[t])]
          /\ pc' = [pc EXCEPT ![t] = "ret"]
          /\ ret' = ret
  /\ UNCHANGED << arg, mem >>

\* A call of smrng_lp, by the caller or by smrng_lq (lines 71, 77, 103)
LpCall(t) ==
  /\ IF pc[t] = "idle" THEN arg[t].op = "lp" ELSE pc[t] = "call"
  /\ LpReturn(t, LpPoint(t),
              smrng_lp_run(LpPoint(t), arg[t].k, arg[t].df, arg[t].nrng))

\* smrng_lq: the value returned is assigned to y2 (lines 71, 77) or to y
\* (line 103), and *itr is read for (*itr)++ (lines 72, 78, 104)
LqCount(t) ==
  /\ pc[t] = "ret"
  /\ IF loc[t].phase = "bracket"
     THEN /\ loc' = [loc EXCEPT ![t] = [@ EXCEPT !.y2 = loc[t].rv,
                                                  !.tmp = mem[ItrCell(arg[t])]]]
          /\ pc' = [pc EXCEPT ![t] = "while"]
     ELSE /\ loc' = [loc EXCEPT ![t] = [@ EXCEPT !.y = loc[t].rv,
                                                  !.tmp = mem[ItrCell(arg[t])]]]
          /\ pc' = [pc EXCEPT ![t] = "test"]
  /\ UNCHANGED << arg, mem, ret, lpres, obs >>

\* The automatic variables l after lines 74-76
Doubled(l) ==
  [l EXCEPT !.x1 = lq_double(l.x1, l.y1, l.x2, l.y2).x1,
            !.y1 = lq_double(l.x1, l.y1, l.x2, l.y2).y1,
            !.x2 = lq_double(l.x1, l.y1, l.x2, l.y2).x2]

\* The automatic variables l after lines 80-81 and i = 1
Seeded(l) ==
  [l EXCEPT !.x3 = lq_seed(l.x1, l.y1, l.x2, l.y2).x3,
            !.y3 = lq_seed(l.x1, l.y1, l.x2, l.y2).y3,
            !.i = 1, !.phase = "refine"]

\* smrng_lq: *itr is written by (*itr)++ (line 72 or 78) and y2 < p is tested
\* (line 73); then lines 74-76 up to the call of smrng_lp, or lines 80-83
LqWhile(t) ==
  /\ pc[t] = "while"
  /\ mem' = [mem EXCEPT ![ItrCell(arg[t])] = itr_incr(loc[t].tmp)]
  /\ IF lq_while(loc[t].y2, arg[t].p)
     THEN /\ obs[t].dbl < MaxDoublings
          /\ loc' = [loc EXCEPT ![t] = Doubled(@)]
          /\ obs' = [obs EXCEPT ![t] = [@ EXCEPT !.dbl = @ + 1,
                                                  !.pre = [x |-> loc[t].x2,
                                                           y |-> loc[t].y2]]]
          /\ pc' = [pc EXCEPT ![t] = "call"]
     ELSE /\ loc' = [loc EXCEPT ![t] = Seeded(@)]
          /\ obs' = obs
          /\ pc' = [pc EXCEPT ![t] = "for"]
  /\ UNCHANGED << arg, ret, lpres >>

\* The trial point of the iteration the automatic variables l are in
Trial(l, a) == lq_trial(l.i, l.x1, l.y1, l.x2, l.y2, l.x3, l.y3, a.p, a.xeps)

\* smrng_lq, lines 84-102, up to the call of smrng_lp of line 103
LqTrial(t) ==
  /\ pc[t] = "for"
  /\ loc' = [loc EXCEPT ![t].x = Trial(loc[t], arg[t])]
  /\ pc' = [pc EXCEPT ![t] = "call"]
  /\ UNCHANGED << arg, mem, ret, lpres, obs >>

\* The automatic variables l after lines 108-119 and i++
Updated(l, u) ==
  [l EXCEPT !.x1 = u.x1, !.y1 = u.y1, !.x2 = u.x2, !.y2 = u.y2,
            !.x3 = u.x3, !.y3 = u.y3, !.i = @ + 1]

\* smrng_lq: *itr is written by (*itr)++ (line 104); then the break of lines
\* 105-106, or lines 108-119, i++ and the test i < 201 of line 83; line 121
\* when the loop is left.
LqTest(t) ==
  /\ pc[t] = "test"
  /\ mem' = [mem EXCEPT ![ItrCell(arg[t])] = itr_incr(loc[t].tmp)]
  /\ IF lq_break(loc[t].x1, loc[t].x2, loc[t].y, arg[t].p, arg[t].xeps, arg[t].peps)
     THEN /\ ret' = [ret EXCEPT ![t] = loc[t].x]
          /\ pc' = [pc EXCEPT ![t] = "done"]
          /\ UNCHANGED << loc, obs >>
     ELSE /\ obs' = [obs EXCEPT ![t].passed = @ \/ Tolerances(loc[t], arg[t])]
          /\ loc' = [loc EXCEPT ![t] =
                       Updated(@, lq_update(@.x1, @.y1, @.x2, @.y2, @.x, @.y,
                                            arg[t].p))]
          /\ IF loc[t].i + 1 < ITEND
             THEN ret' = ret /\ pc' = [pc EXCEPT ![t] = "for"]
             ELSE /\ ret' = [ret EXCEPT ![t] = loc[t].x]
                  /\ pc' = [pc EXCEPT ![t] = "done"]
  /\ UNCHANGED << arg, lpres >>

\* A call of rng_lp by the caller
RngCall(t) ==
  /\ pc[t] = "idle" /\ arg[t].op = "rng"
  /\ ret' = [ret EXCEPT ![t] = rng_lp(arg[t].q, arg[t].k)]
  /\ pc' = [pc EXCEPT ![t] = "done"]
  /\ UNCHANGED << arg, loc, mem, lpres, obs >>

\* A step of thread t
Step(t) ==
  \/ LqEnter(t)
  \/ LpCall(t)
  \/ LqCount(t)
  \/ LqWhile(t)
  \/ LqTrial(t)
  \/ LqTest(t)
  \/ RngCall(t)

Next == \E t \in Threads : Step(t)

Spec == Init /\ [][Next]_vars

\* Two calls at once, their steps interleaved
ConcSpec == ConcInit /\ [][Next]_vars

\* Thread t has a step to take: its call has not returned, and the
\* bracketing loop is not at the last doubling that is followed
Running(t) ==
  /\ pc[t] \notin {"done", "off"}
  /\ ~(/\ pc[t] = "while" /\ obs[t].dbl >= MaxDoublings
       /\ lq_while(loc[t].y2, arg[t].p))

\* A step of thread t, told by its pc: every action of Step(t) changes
\* pc[t], and no step of another thread does
Turn(t) == pc'[t] # pc[t]

\* One caller whose call keeps running: WF_vars(Step(t)) with ENABLED
\* written out as Running(t)
FairSpec ==
  Spec /\ \A t \in Threads : []<>(~Running(t)) \/ []<><<Turn(t)>>_vars

(***************************************************************************)
(* Properties                                                              *)
(***************************************************************************)

\* Thread t runs smrng_lq with 0 < p < 1
Open(t) == arg[t].op = "lq" /\ 0 < arg[t].p /\ arg[t].p < Unit

\* Thread t is in, or has left, the refinement loop of smrng_lq
Refining(t) == Open(t) /\ loc[t].phase = "refine"

\* The value smrng_lp returns at x for the arguments a of a call of smrng_lq
ValueAt(x, a) == smrng_lp(x, a.k, a.df, a.nrng)

\* The midpoint of the bracket of the automatic variables l
Midpoint(l) == RDiv(l.x1 + l.x2, 2)

\* C1: from the end of the bracketing loop on, and after every update of the
\* bracket in the refinement loop, y1 < p <= y2, where y1 and y2 are the
\* values smrng_lp returns at x1 and x2 (0 at x1 = 0).
C1_Bracket ==
  \A t \in Threads :
    Refining(t) =>
      /\ loc[t].y1 < arg[t].p /\ arg[t].p <= loc[t].y2
      /\ pc[t] \in {"for", "done"} =>
           /\ loc[t].y2 = ValueAt(loc[t].x2, arg[t])
           /\ IF loc[t].x1 = 0 THEN loc[t].y1 = 0
              ELSE loc[t].y1 = ValueAt(loc[t].x1, arg[t])

\* C1: a refinement loop that has doubled x2 and has updated both ends of
\* the bracket since
C1_Witness ==
  \E t \in Threads :
    /\ Refining(t) /\ pc[t] = "for" /\ loc[t].i > 2
    /\ obs[t].dbl > 0
    /\ loc[t].x1 > obs[t].pre.x /\ loc[t].x2 < 2 * obs[t].pre.x

\* C2: smrng_lq returns the first trial x_i at which the bracket the trial
\* was computed from is narrower than xeps and smrng_lp(x_i) is within peps
\* of p, the bracket not being updated with that trial; when no trial
\* qualifies it returns the 200th trial.
C2_Return ==
  \A t \in Threads :
    Open(t) =>
      /\ ~obs[t].passed
      /\ pc[t] = "done" =>
           /\ ret[t] = loc[t].x
           /\ loc[t].y = ValueAt(ret[t], arg[t])
           /\ IF Tolerances(loc[t], arg[t])
              THEN /\ Bracket(loc[t]) = obs[t].last
                   /\ obs[t].nref = loc[t].i
                   /\ loc[t].i < ITEND
                   /\ Abs(loc[t].x2 - loc[t].x1) < arg[t].xeps
                   /\ Abs(ValueAt(ret[t], arg[t]) - arg[t].p) < arg[t].peps
              ELSE obs[t].nref = ITEND - 1 /\ loc[t].i = ITEND

\* C2: a call that ended at a trial meeting both tolerances, after trials
\* that did not
C2_Witness ==
  \E t \in Threads :
    /\ Open(t) /\ pc[t] = "done"
    /\ Tolerances(loc[t], arg[t])
    /\ obs[t].nref > 2 /\ obs[t].nref < ITEND - 1

\* C3: for p <= 0 smrng_lq returns 0 and for p >= 1 it returns 1.0e+99,
\* whatever the other arguments, without a call of smrng_lp and with *itr
\* set to 0.
C3_Edge ==
  \A t \in Threads :
    (arg[t].op = "lq" /\ ~Open(t)) =>
      /\ pc[t] \in {"idle", "done"}
      /\ obs[t].calls = 0 /\ ~lpres[t].made
      /\ pc[t] = "done" =>
           /\ mem[arg[t].itr] = 0
           /\ arg[t].p <= 0 => ret[t] = 0
           /\ arg[t].p >= Unit => ret[t] = Sentinel

\* C3: a call with p >= 1 and df > 0 that has returned
C3_Witness ==
  \E t \in Threads :
    /\ arg[t].op = "lq" /\ arg[t].p >= Unit /\ arg[t].df > 0
    /\ pc[t] = "done" /\ ret[t] = Sentinel

\* The bracketing loop of thread t has doubled x2 as often as it is
\* followed, and smrng_lp has not reached p
Unreached(t) ==
  /\ pc[t] = "while" /\ obs[t].dbl = MaxDoublings
  /\ lq_while(loc[t].y2, arg[t].p)

\* C4: for 0 < p < 1 smrng_lq terminates when smrng_lp reaches p at some
\* point 2 * 2^d, and on return *itr is the number of calls of smrng_lp
\* made: 1 + d + n with d doublings and n refinement iterations,
\* 1 <= n <= 200.
C4_Terminates ==
  /\ \A t \in Threads :
       [](Open(t) /\ pc[t] = "done" =>
            /\ mem[arg[t].itr] = obs[t].calls
            /\ obs[t].calls = 1 + obs[t].dbl + obs[t].nref
            /\ 1 <= obs[t].nref /\ obs[t].nref <= 200
            /\ obs[t].dbl > 0 => obs[t].pre.y < arg[t].p)
  /\ \A t \in Threads : Open(t) ~> (pc[t] = "done" \/ Unreached(t))

\* C4: a call that has returned after several doublings and several
\* refinement iterations
C4_Witness ==
  \E t \in Threads :
    /\ Open(t) /\ pc[t] = "done"
    /\ obs[t].dbl > 1 /\ obs[t].nref > 1
    /\ mem[arg[t].itr] = 1 + obs[t].dbl + obs[t].nref

\* C5: for df <= 0 smrng_lp(q, k, df, nrng) is rng_lp(q, k) to the power
\* nrng, 0 on both sides for q <= 0, and no interval is integrated.
C5_Infinite ==
  \A t \in Threads :
    (lpres[t].made /\ arg[t].df <= 0) =>
      /\ lpres[t].ret = PowI(rng_lp(lpres[t].q, arg[t].k), arg[t].nrng)
      /\ lpres[t].segs = << >>
      /\ lpres[t].q <= 0 =>
           lpres[t].ret = 0 /\ rng_lp(lpres[t].q, arg[t].k) = 0

\* C5: a call with df <= 0, nrng = 2 and a value strictly between 0 and 1
C5_Witness ==
  \E t \in Threads :
    /\ arg[t].op = "lp" /\ pc[t] = "done" /\ lpres[t].made
    /\ arg[t].df <= 0 /\ arg[t].nrng = 2 /\ arg[t].q > 0
    /\ 0 < ret[t] /\ ret[t] < Unit
    /\ ret[t] < rng_lp(arg[t].q, arg[t].k)

\* What the call of thread t returns, and leaves in *itr, when it runs alone
Alone(t) ==
  IF arg[t].op = "lq"
  THEN smrng_lq(arg[t].p, arg[t].k, arg[t].df, arg[t].nrng, arg[t].xeps,
                arg[t].peps)
  ELSE IF arg[t].op = "lp"
  THEN [x |-> smrng_lp(arg[t].q, arg[t].k, arg[t].df, arg[t].nrng), itr |-> 0]
  ELSE [x |-> rng_lp(arg[t].q, arg[t].k), itr |-> 0]

\* No other call of smrng_lq was given the itr of the call of thread t
OwnItr(t) ==
  \A u \in Threads \ {t} : arg[u].op = "lq" => arg[u].itr # arg[t].itr

\* C6 as stated: calls of smrng_lq, smrng_lp and rng_lp running at once
\* return what they return alone, and every call of smrng_lq leaves in *itr
\* the count it leaves alone.
C6_AsStated ==
  \A t \in Threads :
    pc[t] = "done" =>
      /\ ret[t] = Alone(t).x
      /\ arg[t].op = "lq" => mem[arg[t].itr] = Alone(t).itr

\* C6: calls running at once return what they return alone, and a call of
\* smrng_lq leaves in *itr the count it leaves alone when no other call of
\* smrng_lq running at once was given the same itr.
C6_Concurrent ==
  \A t \in Threads :
    pc[t] = "done" =>
      /\ ret[t] = Alone(t).x
      /\ (arg[t].op = "lq" /\ OwnItr(t)) => mem[arg[t].itr] = Alone(t).itr

\* C6: two calls of smrng_lq with an itr each have run at once and returned,
\* each after several calls of smrng_lp
C6_Witness ==
  /\ \A t \in Threads : Open(t) /\ pc[t] = "done" /\ obs[t].calls > 1
  /\ arg[1].itr # arg[2].itr

\* sl, su, rl/q and ru/q of the call of smrng_lp thread t made last
Su(t) == Sqrt(RDiv(chi2u(arg[t].df), arg[t].df))

Sl0(t) == Sqrt(RDiv(chi2l(arg[t].df), arg[t].df))

Rlq(t) == FDiv(rlower(arg[t].k, arg[t].nrng), lpres[t].q)

Ruq(t) == FDiv(rupper(arg[t].k, arg[t].nrng), lpres[t].q)

Sl(t) == Max(Sl0(t), Rlq(t))

\* Thread t made a call of smrng_lp with q > 0 and df > 0
Finite(t) == lpres[t].made /\ lpres[t].q > 0 /\ arg[t].df > 0

\* The call of smrng_lp thread t made last integrated
Integrates(t) == Finite(t) /\ Rlq(t) < Su(t) /\ Ruq(t) > Sl(t)

\* C7 as stated: when sl < ru/q < su the integrand of the lower segment
\* [sl, ru/q] has its rng_lp factor forced to 1 and that of the upper
\* segment [ru/q, su] is the full one.
C7_AsStated ==
  \A t \in Threads :
    (Integrates(t) /\ Ruq(t) < Su(t)) =>
      /\ Len(lpres[t].segs) = 2
      /\ \A j \in 1 .. 2 :
           /\ lpres[t].segs[j].lo = Sl(t) => ~lpres[t].segs[j].full
           /\ lpres[t].segs[j].hi = Su(t) => lpres[t].segs[j].full

\* C7: when sl < ru/q < su smrng_lp integrates the upper segment
\* [ru/q, su] with the rng_lp factor forced to 1 and the lower segment
\* [sl, ru/q] with the full integrand, the two covering [sl, su] once; when
\* ru/q >= su it integrates the one segment [sl, su] with the full
\* integrand.
C7_Split ==
  \A t \in Threads :
    Integrates(t) =>
      IF Ruq(t) < Su(t)
      THEN lpres[t].segs =
             << [lo |-> Ruq(t), hi |-> Su(t), full |-> FALSE],
                [lo |-> Sl(t), hi |-> Ruq(t), full |-> TRUE] >>
      ELSE lpres[t].segs = << [lo |-> Sl(t), hi |-> Su(t), full |-> TRUE] >>

\* C7: a call that split [sl, su] at ru/q
C7_Witness ==
  \E t \in Threads :
    /\ Integrates(t) /\ Sl(t) < Ruq(t) /\ Ruq(t) < Su(t)
    /\ Len(lpres[t].segs) = 2

\* Thread t has computed the trial of an even iteration by quadratic
\* interpolation (line 85 not taken)
Quadratic(t) ==
  /\ Refining(t) /\ pc[t] = "call"
  /\ loc[t].i % 2 = 0
  /\ Abs(loc[t].y2 - loc[t].y1) >= YEPS

\* The third point is within xeps of an end of the bracket (line 90)
Coincident(t) ==
  \/ Abs(loc[t].x1 - loc[t].x3) < arg[t].xeps
  \/ Abs(loc[t].x2 - loc[t].x3) < arg[t].xeps

\* The point lines 90-98 compute for thread t
Root(t) ==
  lq_root(lq_a(loc[t].x1, loc[t].y1, loc[t].x2, loc[t].y2, loc[t].x3,
               loc[t].y3, arg[t].xeps),
          loc[t].x1, loc[t].y1, loc[t].x2, loc[t].y2, arg[t].p)

Outside(t) == Root(t) < loc[t].x1 \/ Root(t) > loc[t].x2

\* The slope of the chord of the bracket, and the point where the chord
\* reaches p as line 98 computes it for a = 0
Slope(t) == FDiv(loc[t].y2 - loc[t].y1, loc[t].x2 - loc[t].x1)

Chord(t) ==
  IF Slope(t) = 0 THEN Sentinel
  ELSE loc[t].x1 + FDiv(2 * (arg[t].p - loc[t].y1),
                        Slope(t) + ISqrt(Slope(t) * Slope(t)))

\* C8 as stated: in an even iteration with |y2 - y1| >= 1.0e-12 the trial
\* is the midpoint when x3 is within xeps of x1 or x2, or when the
\* interpolated point is outside [x1, x2].
C8_AsStated ==
  \A t \in Threads :
    (Quadratic(t) /\ (Coincident(t) \/ Outside(t))) =>
      loc[t].x = Midpoint(loc[t])

\* C8: in an even iteration with |y2 - y1| >= 1.0e-12 the trial is the
\* midpoint when the interpolated point is outside [x1, x2]; when x3 is
\* within xeps of x1 or x2 the interpolated point is the one of the chord
\* (a = 0), which is the trial unless it is outside [x1, x2].
C8_Fallback ==
  \A t \in Threads :
    Quadratic(t) =>
      /\ Outside(t) => loc[t].x = Midpoint(loc[t])
      /\ ~Outside(t) => loc[t].x = Root(t)
      /\ Coincident(t) =>
           /\ Root(t) = Chord(t)
           /\ loc[t].x = IF Chord(t) < loc[t].x1 \/ Chord(t) > loc[t].x2
                         THEN Midpoint(loc[t]) ELSE Chord(t)

\* C8: an even iteration whose third point coincides with an end of the
\* bracket and whose trial is the point of the chord, not the midpoint
C8_Witness ==
  \E t \in Threads :
    /\ Quadratic(t) /\ Coincident(t)
    /\ loc[t].x = Chord(t) /\ loc[t].x # Midpoint(loc[t])

\* Thread t has left the bracketing loop after a doubling and is at the
\* head of the refinement loop
Bracketed(t) == Refining(t) /\ pc[t] = "for" /\ loc[t].i = 1 /\ obs[t].dbl > 0

\* C9 as stated: after the bracketing loop has doubled x2, (x3, y3) is the
\* point (x2, y2) held before the last doubling.
C9_AsStated ==
  \A t \in Threads :
    Bracketed(t) => loc[t].x3 = obs[t].pre.x /\ loc[t].y3 = obs[t].pre.y

\* C9: after the bracketing loop has doubled x2, (x3, y3) is the last upper
\* end (x2, y2) of the bracket; the point held before the last doubling is
\* the lower end (x1, y1).
C9_Seed ==
  \A t \in Threads :
    Bracketed(t) =>
      /\ loc[t].x3 = loc[t].x2 /\ loc[t].y3 = loc[t].y2
      /\ loc[t].x1 = obs[t].pre.x /\ loc[t].y1 = obs[t].pre.y
      /\ loc[t].x2 = 2 * obs[t].pre.x

\* C9: a call at the head of the refinement loop after two doublings or more
C9_Witness == \E t \in Threads : Bracketed(t) /\ obs[t].dbl > 1

\* C10: for q > 0 and df > 0 smrng_lp returns 0 when rlower/q >= su and 1
\* when rupper/q <= sqrt(chi2l(df)/df), integrating nothing in either case.
C10_ShortCircuit ==
  \A t \in Threads :
    Finite(t) =>
      /\ Rlq(t) >= Su(t) => lpres[t].ret = 0 /\ lpres[t].segs = << >>
      /\ Ruq(t) <= Sl0(t) => lpres[t].ret = Unit /\ lpres[t].segs = << >>

\* C10: a call that returned 1 with rupper/q at or below sqrt(chi2l(df)/df)
C10_Witness ==
  \E t \in Threads :
    /\ Finite(t) /\ arg[t].op = "lp" /\ pc[t] = "done"
    /\ Ruq(t) <= Sl0(t) /\ ret[t] = Unit

\* The width x2 - x1 of the bracket of the automatic variables l
Width(l) == l.x2 - l.x1

\* The width of the bracket the refinement loop of thread t started with
StartWidth(t) ==
  IF obs[t].dbl = 0 THEN lq_first.x2 - lq_first.x1 ELSE obs[t].pre.x

\* Thread t has chosen the trial point of a refinement iteration
Tried(t) == Refining(t) /\ pc[t] \in {"call", "ret", "test"}

\* Thread t has updated the bracket: obs[t].last is the bracket before the
\* update and (loc[t].x, loc[t].y) the trial
AfterUpdate(t) ==
  /\ Refining(t) /\ loc[t].i > 1
  /\ pc[t] = "for" \/ (pc[t] = "done" /\ loc[t].i = ITEND)

RECURSIVE Within(_, _, _)
\* w <= 2^-n * w0, for w >= 0
Within(w, n, w0) ==
  IF n = 0 \/ w = 0 THEN w <= w0
  ELSE IF w > w0 THEN FALSE
  ELSE Within(2 * w, n - 1, w0)

\* The trial point of thread t is the midpoint in an odd iteration and when
\* |y2 - y1| is below YEPS, and lies in the bracket in every iteration
Midpoints(t) ==
  Tried(t) =>
    /\ loc[t].i % 2 = 1 \/ Abs(loc[t].y2 - loc[t].y1) < YEPS =>
         loc[t].x = Midpoint(loc[t])
    /\ loc[t].x1 <= loc[t].x /\ loc[t].x <= loc[t].x2

\* An update of the bracket by thread t has not increased its width, and
\* the refinement loop starts at StartWidth(t)
Narrows(t) ==
  /\ AfterUpdate(t) => Width(loc[t]) <= Width(obs[t].last)
  /\ Refining(t) /\ loc[t].i = 1 => Width(loc[t]) = StartWidth(t)

\* C11 as stated: the trial point is the midpoint in every odd iteration and
\* whenever |y2 - y1| < 1e-12, every trial point lies in [x1, x2], the width
\* never increases, and after 2n iterations the width is at most 2^-n times
\* the width at the start of refinement.
C11_AsStated ==
  \A t \in Threads :
    /\ Midpoints(t)
    /\ Narrows(t)
    /\ Refining(t) =>
         Within(Width(loc[t]), (loc[t].i - 1) \div 2, StartWidth(t))

\* C11: the trial point is the midpoint 0.5*(x1 + x2), as computed, in every
\* odd iteration and whenever |y2 - y1| < 1e-12; every trial point lies in
\* [x1, x2], the width never increases, and after 2n iterations the width is
\* at most 2^-n times the width at the start of refinement plus one spacing
\* of the abscissae, the rounding of the computed midpoints.
C11_Halves ==
  \A t \in Threads :
    /\ Midpoints(t)
    /\ Narrows(t)
    /\ Refining(t) =>
         /\ Width(loc[t]) >= 1
         /\ Within(Width(loc[t]) - 1, (loc[t].i - 1) \div 2, StartWidth(t))

\* C11: an even iteration that bisects because |y2 - y1| < 1e-12, in a
\* bracket the earlier iterations have narrowed and whose midpoint is not on
\* the grid
C11_Witness ==
  \E t \in Threads :
    /\ Tried(t) /\ loc[t].i % 2 = 0 /\ loc[t].i > 2
    /\ Abs(loc[t].y2 - loc[t].y1) < YEPS
    /\ loc[t].x = Midpoint(loc[t])
    /\ Width(loc[t]) % 2 = 1 /\ Width(loc[t]) < StartWidth(t)

\* The update of thread t put the trial in place of the upper end: the old
\* upper end is the third point and the lower end is as it was
UpperReplaced(t) ==
  /\ loc[t].x2 = loc[t].x /\ loc[t].y2 = loc[t].y
  /\ loc[t].x3 = obs[t].last.x2 /\ loc[t].y3 = obs[t].last.y2
  /\ loc[t].x1 = obs[t].last.x1 /\ loc[t].y1 = obs[t].last.y1

\* The update of thread t put the trial in place of the lower end: the old
\* lower end is the third point and the upper end is as it was
LowerReplaced(t) ==
  /\ loc[t].x1 = loc[t].x /\ loc[t].y1 = loc[t].y
  /\ loc[t].x3 = obs[t].last.x1 /\ loc[t].y3 = obs[t].last.y1
  /\ loc[t].x2 = obs[t].last.x2 /\ loc[t].y2 = obs[t].last.y2

\* C12: throughout the refinement loop x1 < x2 and x3 is not strictly inside
\* the bracket (x3 <= x1 or x2 <= x3); every update puts the trial (x, y) in
\* place of exactly one end, the upper one when y >= p and the lower one
\* otherwise, moves that end's old pair into (x3, y3) and leaves the other
\* end's pair as it was.
C12_Update ==
  \A t \in Threads :
    /\ Refining(t) =>
         /\ loc[t].x1 < loc[t].x2
         /\ loc[t].x3 <= loc[t].x1 \/ loc[t].x2 <= loc[t].x3
    /\ AfterUpdate(t) =>
         /\ UpperReplaced(t) # LowerReplaced(t)
         /\ UpperReplaced(t) <=> loc[t].y >= arg[t].p

\* C12: an update that has put the trial in place of the lower end, leaving
\* x3 below the bracket, after an earlier update of the upper end
C12_Witness ==
  \E t \in Threads :
    /\ AfterUpdate(t) /\ LowerReplaced(t)
    /\ loc[t].x3 < loc[t].x1
    /\ loc[t].x2 - loc[t].x3 < StartWidth(t)

====
